---------------------------- MODULE Spec2Model ----------------------------
(***************************************************************************)
(* Model of the concurrency crate: the threaded matrix product             *)
(* (src/matrix.rs), the dot product (src/vector.rs) and the matrix         *)
(* rendering (src/matrix.rs, impl Display).                                *)
(*                                                                         *)
(* Offsets are 0-based as in the source; a TLA+ sequence holds the element *)
(* of offset p at position p + 1.                                          *)
(***************************************************************************)
EXTENDS Integers, Sequences, FiniteSets, TLC

\* matrix.rs:10
NUM_THREADS == 4

\* ---- bounds of the model ------------------------------------------------
\* rows of the left operand
MaxRow == 2
\* columns of the left operand and rows of the right operand
MaxInner == 2
\* columns of the right operand
MaxCol == 3
\* a buffer handed to Matrix::new is at most MaxSlack longer or shorter
\* than rows*cols
MaxSlack == 1
\* buffers are ramps base+1, base+2, ... with base in 0..MaxBase
MaxBase == 0
\* a call of multiply builds at most MaxTasks tasks (rows_a * cols_b)
MaxTasks == 6

Workers == 0 .. (NUM_THREADS - 1)

\* T::default() of the numeric element type (matrix.rs:60, vector.rs:19)
Default == 0

Max(x, y) == IF x >= y THEN x ELSE y

\* the buffers the model hands to Matrix::new: <<base+1, base+2, ...>>
Ramp(len, base) == [p \in 1 .. len |-> base + p]

BufLens(row, col) == Max(0, row * col - MaxSlack) .. (row * col + MaxSlack)

Buffers(row, col) ==
  {Ramp(len, base) : len \in BufLens(row, col), base \in 0 .. MaxBase}

\* ---- Vector and dot_product (vector.rs) -------------------------------

\* vector.rs:21  sum += a[i] * b[i]   (i is the 0-based loop index)
DotStep(sum, va, vb, i) == sum + va[i + 1] * vb[i + 1]

\* vector.rs:19-22, the loop from index i on
RECURSIVE DotLoop(_, _, _, _)
DotLoop(sum, va, vb, i) ==
  IF i >= Len(va) THEN sum ELSE DotLoop(DotStep(sum, va, vb, i), va, vb, i + 1)

\* mutant of LenMismatch: only a longer first vector is refused
MutLenMismatch(va, vb) == Len(va) > Len(vb)

\* vector.rs:15  the guard of the early return
LenMismatch(va, vb) == Len(va) # Len(vb)

\* vector.rs:11-25.  mults counts the products a[i] * b[i] evaluated.
dot_product(va, vb) ==
  IF LenMismatch(va, vb)
    THEN [ok |-> FALSE, err |-> "Vector length mismatch", mults |-> 0]
    ELSE [ok |-> TRUE, value |-> DotLoop(Default, va, vb, 0), mults |-> Len(va)]

\* ---- Matrix (matrix.rs) ----------------------------------------------

\* matrix.rs:95-101  Matrix::new stores its arguments unchecked
Matrix_new(buf, row, col) == [data |-> buf, row |-> row, col |-> col]

NoMatrix == [none |-> TRUE]

\* mutant of RowSlice: the row offset is not scaled by the row length,
\* a.data[i..i + a.col]
MutRowSlice(m, i) ==
  IF i + m.col > Len(m.data)
    THEN [ok |-> FALSE]
    ELSE [ok |-> TRUE, v |-> SubSeq(m.data, i + 1, i + m.col)]

\* matrix.rs:65  &a.data[i * a.col..(i+1) * a.col]; the slice panics when
\* its end lies beyond the buffer
RowSlice(m, i) ==
  IF (i + 1) * m.col > Len(m.data)
    THEN [ok |-> FALSE]
    ELSE [ok |-> TRUE, v |-> SubSeq(m.data, i * m.col + 1, (i + 1) * m.col)]

\* number of offsets j, j + col, j + 2*col, ... below len
StrideCount(len, j, col) == IF len <= j THEN 0 ELSE ((len - j - 1) \div col) + 1

\* matrix.rs:66  b.data[j..].iter().step_by(b.col).copied().collect();
\* b.data[j..] panics when j lies beyond the buffer
ColGather(m, j) ==
  IF j > Len(m.data)
    THEN [ok |-> FALSE]
    ELSE [ok |-> TRUE,
          v |-> [t \in 1 .. StrideCount(Len(m.data), j, m.col) |->
                   m.data[j + (t - 1) * m.col + 1]]]

\* mutant of LinearIdx: the row index is not scaled by the row length
MutLinearIdx(i, j, cols) == i + j

\* matrix.rs:68
LinearIdx(i, j, cols) == i * cols + j

\* mutant of Route: the quotient is taken for the remainder
MutRoute(idx) == idx \div NUM_THREADS

\* matrix.rs:79  senders[idx % NUM_THREADS]
Route(idx) == idx % NUM_THREADS

\* mutant of DimMismatch: only a wider left operand is refused
MutDimMismatch(ma, mb) == ma.col > mb.row

\* matrix.rs:38
DimMismatch(ma, mb) == ma.col # mb.row

VARIABLES
  a, b,        \* the operands of multiply (matrix.rs:35)
  pc,          \* position of the calling (dispatcher) thread
  res,         \* what the call of multiply produced
  nspawned,    \* worker threads spawned so far (matrix.rs:41-58)
  txAlive,     \* the Vec senders of mpsc senders exists (matrix.rs:41)
  queue,       \* per worker, the messages in its mpsc channel
  wst,         \* per worker: "unspawned", "idle", "busy", "failed", "panicked", "exited"
  cur,         \* per worker, the message of the running loop iteration
  data,        \* the output buffer (matrix.rs:60)
  receivers,   \* the oneshot channels, in creation order (matrix.rs:61, 74, 82)
  i, j,        \* the loop indices of matrix.rs:63-64
  k,           \* number of receivers the loop of matrix.rs:85 has consumed
  wlog,        \* history: the writes data[output.idx] = output.value (matrix.rs:87)
  made,        \* history: the idx of the tasks built, in order (matrix.rs:69-78)
  sent,        \* history: per worker, the idx of the tasks its channel accepted (matrix.rs:79)
  wrecv,       \* history: per worker, the idx of the tasks it received (matrix.rs:46)
  wcomp,       \* history: per worker, the idx of the tasks dot_product returned for (matrix.rs:47)
  hres,        \* history: per oneshot channel, how it was resolved (matrix.rs:48, drops)
  hread,       \* history: per oneshot channel, the blocking_recv calls on it (matrix.rs:86)
  opres,       \* what the operator a * b produced (matrix.rs:144-146)
  fm,          \* the matrix handed to Display::fmt (matrix.rs:107)
  fout,        \* what the last call of fmt wrote
  fprev,       \* what the call of fmt before it wrote
  fcalls,      \* number of calls of fmt so far
  da, db,      \* the arguments of dot_product (vector.rs:11)
  dres,        \* what the call of dot_product returned
  am_names,    \* the names AmapMetrics::new was given (amap.rs:18)
  am_heap,     \* the maps behind an Arc, by allocation (amap.rs:24)
  am_handles,  \* the AmapMetrics values: each the index of its Arc's map (amap.rs:14)
  am_calls,    \* history: per name, the calls of inc made with it (amap.rs:28)
  am_last      \* what the last call of inc returned

ghost == <<made, sent, wrecv, wcomp, hres, hread>>
mvars == <<a, b, pc, res, nspawned, txAlive, queue, wst, cur, data, receivers,
           i, j, k, wlog, ghost, opres>>
fvars == <<fm, fout, fprev, fcalls>>
dvars == <<da, db, dres>>
avars == <<am_names, am_heap, am_handles, am_calls, am_last>>
others == <<fvars, dvars, avars>>
vars == <<mvars, fvars, dvars, avars>>

NoMsg == [none |-> TRUE]
NoRes == [kind |-> "None"]

NoOut == [none |-> TRUE]

\* no call of fmt has been made
FmtIdle ==
  /\ fm = NoMatrix
  /\ fout = NoOut
  /\ fprev = NoOut
  /\ fcalls = 0

\* no call of dot_product has been made on its own
DotIdle ==
  /\ da = <<>>
  /\ db = <<>>
  /\ dres = NoRes

\* the names a caller may pass to AmapMetrics::new and to inc
KeyNames == {"req", "hit", "miss"}

\* no AmapMetrics has been created
AmapIdle ==
  /\ am_names = {}
  /\ am_heap = <<>>
  /\ am_handles = <<>>
  /\ am_calls = [n \in KeyNames |-> 0]
  /\ am_last = NoRes

MulInit ==
  /\ a = NoMatrix
  /\ b = NoMatrix
  /\ pc = "new_a"
  /\ res = NoRes
  /\ nspawned = 0
  /\ txAlive = FALSE
  /\ queue = [w \in Workers |-> <<>>]
  /\ wst = [w \in Workers |-> "unspawned"]
  /\ cur = [w \in Workers |-> NoMsg]
  /\ data = <<>>
  /\ receivers = <<>>
  /\ i = 0
  /\ j = 0
  /\ k = 0
  /\ wlog = <<>>
  /\ made = <<>>
  /\ sent = [w \in Workers |-> <<>>]
  /\ wrecv = [w \in Workers |-> <<>>]
  /\ wcomp = [w \in Workers |-> <<>>]
  /\ hres = <<>>
  /\ hread = <<>>
  /\ opres = NoRes

Init == MulInit /\ FmtIdle /\ DotIdle /\ AmapIdle

\* ---- the calling thread -------------------------------------------------

\* matrix.rs:95-101 as called by the tests (matrix.rs:151, 161)
NewA ==
  /\ pc = "new_a"
  /\ \E row \in 0 .. MaxRow, col \in 0 .. MaxInner :
       \E buf \in Buffers(row, col) : a' = Matrix_new(buf, row, col)
  /\ pc' = "new_b"
  /\ UNCHANGED <<b, res, nspawned, txAlive, queue, wst, cur, data, receivers,
                 i, j, k, wlog>>
  /\ UNCHANGED others
  /\ UNCHANGED <<ghost, opres>>

\* matrix.rs:95-101 as called by the tests (matrix.rs:152, 162)
NewB ==
  /\ pc = "new_b"
  /\ \E row \in 0 .. MaxInner, col \in 0 .. MaxCol :
       /\ a.row * col <= MaxTasks
       /\ \E buf \in Buffers(row, col) : b' = Matrix_new(buf, row, col)
  /\ pc' = "check"
  /\ UNCHANGED <<a, res, nspawned, txAlive, queue, wst, cur, data, receivers,
                 i, j, k, wlog>>
  /\ UNCHANGED others
  /\ UNCHANGED <<ghost, opres>>

\* the oneshot receivers still held by the caller are dropped
DropReceivers(rs) == [h \in DOMAIN rs |-> [rs[h] EXCEPT !.rx = FALSE]]

\* matrix.rs:38-40
CheckDims ==
  /\ pc = "check"
  /\ IF DimMismatch(a, b)
       THEN /\ res' = [kind |-> "Err", err |-> "Matrix dimentions mismatch"]
            /\ pc' = "done"
       ELSE /\ res' = res
            /\ pc' = "spawn"
  /\ UNCHANGED <<a, b, nspawned, txAlive, queue, wst, cur, data, receivers,
                 i, j, k, wlog>>
  /\ UNCHANGED others
  /\ UNCHANGED <<ghost, opres>>

\* matrix.rs:41-58, one turn of the map closure: a channel and a thread
Spawn ==
  /\ pc = "spawn"
  /\ nspawned < NUM_THREADS
  /\ wst' = [wst EXCEPT ![nspawned] = "idle"]
  /\ nspawned' = nspawned + 1
  /\ txAlive' = TRUE
  /\ UNCHANGED <<a, b, pc, res, queue, cur, data, receivers, i, j, k, wlog>>
  /\ UNCHANGED others
  /\ UNCHANGED <<ghost, opres>>

\* matrix.rs:59-61
Alloc ==
  /\ pc = "spawn"
  /\ nspawned = NUM_THREADS
  /\ LET matrix_len == a.row * b.col
     IN  data' = [p \in 1 .. matrix_len |-> Default]
  /\ receivers' = <<>>
  /\ i' = 0
  /\ j' = 0
  /\ pc' = "build"
  /\ UNCHANGED <<a, b, res, nspawned, txAlive, queue, wst, cur, k, wlog>>
  /\ UNCHANGED others
  /\ UNCHANGED <<ghost, opres>>

\* a worker whose mpsc receiver still exists
RxAlive(w) == wst[w] \in {"idle", "busy"}

\* mutant of DropLocals: the mpsc senders outlive the call
MutDropLocals ==
  /\ txAlive' = txAlive
  /\ receivers' = DropReceivers(receivers)

\* the calling thread unwinds or returns: every local is dropped
\* (senders, data, the receivers not yet consumed)
DropLocals ==
  /\ txAlive' = FALSE
  /\ receivers' = DropReceivers(receivers)

\* matrix.rs:63-84, one turn of the inner loop body
Build ==
  /\ pc = "build"
  /\ i < a.row
  /\ j < b.col
  /\ LET row == RowSlice(a, i)
         col == ColGather(b, j)
         idx == LinearIdx(i, j, b.col)
         w   == Route(idx)
         h   == Len(receivers) + 1
     IN  IF ~row.ok \/ ~col.ok
           THEN \* the slice of line 65 or 66 panics
                /\ pc' = "done"
                /\ res' = [kind |-> "Panic"]
                /\ DropLocals
                /\ UNCHANGED <<queue, i, j, made, sent, hres, hread>>
           ELSE /\ IF RxAlive(w)
                     THEN /\ queue' = [queue EXCEPT ![w] =
                                Append(@, [idx |-> idx, row |-> row.v,
                                           col |-> col.v, sender |-> h])]
                          /\ receivers' = Append(receivers,
                                [st |-> "pending", rx |-> TRUE])
                          /\ sent' = [sent EXCEPT ![w] = Append(@, idx)]
                          /\ hres' = Append(hres, <<>>)
                     ELSE \* send fails, the message and its sender are dropped
                          /\ queue' = queue
                          /\ receivers' = Append(receivers,
                                [st |-> "closed", rx |-> TRUE])
                          /\ sent' = sent
                          /\ hres' = Append(hres, <<[how |-> "dropped"]>>)
                /\ made' = Append(made, idx)
                /\ hread' = Append(hread, 0)
                /\ IF j + 1 < b.col
                     THEN i' = i /\ j' = j + 1
                     ELSE i' = i + 1 /\ j' = 0
                /\ UNCHANGED <<pc, res, txAlive>>
  /\ UNCHANGED <<a, b, nspawned, wst, cur, data, k, wlog>>
  /\ UNCHANGED others
  /\ UNCHANGED <<wrecv, wcomp, opres>>

\* matrix.rs:63-64, the loops are exhausted
BuildDone ==
  /\ pc = "build"
  /\ i >= a.row \/ b.col = 0
  /\ pc' = "collect"
  /\ k' = 0
  /\ UNCHANGED <<a, b, res, nspawned, txAlive, queue, wst, cur, data,
                 receivers, i, j, wlog>>
  /\ UNCHANGED others
  /\ UNCHANGED <<ghost, opres>>

\* mutant of Collect: a handle that failed is skipped, its slot keeps the
\* default value
MutCollectSkipsFailure ==
  /\ pc = "collect"
  /\ k < Len(receivers)
  /\ LET h == k + 1
         rx == receivers[h]
     IN  /\ rx.st # "pending"
         /\ IF rx.st = "value"
              THEN /\ data' = [data EXCEPT ![rx.out.idx + 1] = rx.out.value]
                   /\ wlog' = Append(wlog, [h |-> h, idx |-> rx.out.idx])
              ELSE UNCHANGED <<data, wlog>>
         /\ receivers' = [receivers EXCEPT ![h].rx = FALSE]
         /\ k' = k + 1
  /\ UNCHANGED <<a, b, pc, res, txAlive, nspawned, queue, wst, cur, i, j>>
  /\ UNCHANGED others
  /\ hread' = [hread EXCEPT ![k + 1] = @ + 1]
  /\ UNCHANGED <<made, sent, wrecv, wcomp, hres, opres>>

\* mutant of Collect: a receiver that delivered its value is awaited again
MutCollectRereads ==
  /\ pc = "collect"
  /\ k < Len(receivers)
  /\ LET h == k + 1
         rx == receivers[h]
     IN  /\ rx.st # "pending"
         /\ IF rx.st = "value"
              THEN /\ data' = [data EXCEPT ![rx.out.idx + 1] = rx.out.value]
                   /\ wlog' = Append(wlog, [h |-> h, idx |-> rx.out.idx])
                   /\ k' = IF hread[h] = 0 THEN k ELSE k + 1
                   /\ receivers' = IF hread[h] = 0 THEN receivers
                                   ELSE [receivers EXCEPT ![h].rx = FALSE]
                   /\ UNCHANGED <<pc, res, txAlive>>
              ELSE /\ res' = [kind |-> "Err", err |-> "channel closed"]
                   /\ pc' = "done"
                   /\ DropLocals
                   /\ UNCHANGED <<data, wlog, k>>
  /\ UNCHANGED <<a, b, nspawned, queue, wst, cur, i, j>>
  /\ UNCHANGED others
  /\ hread' = [hread EXCEPT ![k + 1] = @ + 1]
  /\ UNCHANGED <<made, sent, wrecv, wcomp, hres, opres>>

\* mutant of Collect: the results are taken in the order in which the
\* workers deliver them and stored in that order
MutCollectArrivalOrder ==
  /\ pc = "collect"
  /\ k < Len(receivers)
  /\ \E h \in DOMAIN receivers :
       LET rx == receivers[h]
       IN  /\ rx.rx
           /\ rx.st # "pending"
           /\ IF rx.st = "value"
                THEN /\ data' = [data EXCEPT ![k + 1] = rx.out.value]
                     /\ wlog' = Append(wlog, [h |-> h, idx |-> k])
                     /\ receivers' = [receivers EXCEPT ![h].rx = FALSE]
                     /\ k' = k + 1
                     /\ UNCHANGED <<pc, res, txAlive>>
                ELSE /\ res' = [kind |-> "Err", err |-> "channel closed"]
                     /\ pc' = "done"
                     /\ DropLocals
                     /\ UNCHANGED <<data, wlog, k>>
           /\ hread' = [hread EXCEPT ![h] = @ + 1]
  /\ UNCHANGED <<a, b, nspawned, queue, wst, cur, i, j>>
  /\ UNCHANGED others
  /\ UNCHANGED <<made, sent, wrecv, wcomp, hres, opres>>

\* matrix.rs:85-88, one turn of the collection loop; blocking_recv waits
\* until the channel holds a value or its sender is gone
Collect ==
  /\ pc = "collect"
  /\ k < Len(receivers)
  /\ LET h == k + 1
         rx == receivers[h]
     IN  /\ rx.st # "pending"
         /\ IF rx.st = "value"
              THEN /\ data' = [data EXCEPT ![rx.out.idx + 1] = rx.out.value]
                   /\ wlog' = Append(wlog, [h |-> h, idx |-> rx.out.idx])
                   /\ receivers' = [receivers EXCEPT ![h].rx = FALSE]
                   /\ k' = k + 1
                   /\ UNCHANGED <<pc, res, txAlive>>
              ELSE \* the ? of line 86 returns the RecvError
                   /\ res' = [kind |-> "Err", err |-> "channel closed"]
                   /\ pc' = "done"
                   /\ DropLocals
                   /\ UNCHANGED <<data, wlog, k>>
  /\ UNCHANGED <<a, b, nspawned, queue, wst, cur, i, j>>
  /\ UNCHANGED others
  /\ hread' = [hread EXCEPT ![k + 1] = @ + 1]
  /\ UNCHANGED <<made, sent, wrecv, wcomp, hres, opres>>

\* matrix.rs:89
Return ==
  /\ pc = "collect"
  /\ k = Len(receivers)
  /\ res' = [kind |-> "Ok",
             matrix |-> [data |-> data, row |-> a.row, col |-> b.col]]
  /\ pc' = "done"
  /\ DropLocals
  /\ UNCHANGED <<a, b, nspawned, queue, wst, cur, data, i, j, k, wlog>>
  /\ UNCHANGED others
  /\ UNCHANGED <<ghost, opres>>

\* ---- the worker threads (matrix.rs:45-56) -------------------------------

\* oneshot senders dropped without a value: their channels close
CloseSenders(rs, hs) ==
  [h \in DOMAIN rs |->
     IF h \in hs /\ rs[h].st = "pending" THEN [rs[h] EXCEPT !.st = "closed"]
     ELSE rs[h]]

SendersIn(q) == {q[p].sender : p \in DOMAIN q}

\* the worker thread ends early: the current message and the mpsc
\* receiver, with the messages still in the channel, are dropped
WorkerDies(w, how) ==
  /\ wst' = [wst EXCEPT ![w] = how]
  /\ cur' = [cur EXCEPT ![w] = NoMsg]
  /\ queue' = [queue EXCEPT ![w] = <<>>]
  /\ receivers' = CloseSenders(receivers, {cur[w].sender} \cup SendersIn(queue[w]))
  /\ hres' = [h \in DOMAIN hres |->
               IF h \in {cur[w].sender} \cup SendersIn(queue[w])
                  /\ receivers[h].st = "pending"
                 THEN Append(hres[h], [how |-> "dropped"])
                 ELSE hres[h]]

\* matrix.rs:46  for msg in rx: a message is received
WorkerRecv(w) ==
  /\ wst[w] = "idle"
  /\ queue[w] # <<>>
  /\ cur' = [cur EXCEPT ![w] = Head(queue[w])]
  /\ queue' = [queue EXCEPT ![w] = Tail(@)]
  /\ wst' = [wst EXCEPT ![w] = "busy"]
  /\ UNCHANGED <<a, b, pc, res, nspawned, txAlive, data, receivers, i, j, k, wlog>>
  /\ UNCHANGED others
  /\ wrecv' = [wrecv EXCEPT ![w] = Append(@, queue[w][1].idx)]
  /\ UNCHANGED <<made, sent, wcomp, hres, hread, opres>>

\* matrix.rs:47-53
WorkerCompute(w) ==
  /\ wst[w] = "busy"
  /\ LET msg == cur[w]
         r == dot_product(msg.row, msg.col)
     IN  IF ~r.ok
           THEN \* the ? of line 47 leaves the closure
                WorkerDies(w, "failed")
           ELSE /\ IF receivers[msg.sender].rx
                     THEN /\ receivers' = [receivers EXCEPT ![msg.sender] =
                               [st |-> "value", rx |-> TRUE,
                                out |-> [idx |-> msg.idx, value |-> r.value]]]
                          /\ hres' = [hres EXCEPT ![msg.sender] =
                               Append(@, [how |-> "value", by |-> w])]
                     ELSE \* "Send error": the receiver is gone
                          /\ receivers' = [receivers EXCEPT ![msg.sender].st = "closed"]
                          /\ hres' = hres
                /\ wst' = [wst EXCEPT ![w] = "idle"]
                /\ cur' = [cur EXCEPT ![w] = NoMsg]
                /\ queue' = queue
  /\ UNCHANGED <<a, b, pc, res, nspawned, txAlive, data, i, j, k, wlog>>
  /\ UNCHANGED others
  /\ wcomp' = [wcomp EXCEPT ![w] = Append(@, cur[w].idx)]
  /\ UNCHANGED <<made, sent, wrecv, hread, opres>>

\* vector.rs:21  the arithmetic of the element type panics (an overflow
\* check, say) while the worker computes: the thread unwinds
WorkerPanic(w) ==
  /\ wst[w] = "busy"
  /\ ~LenMismatch(cur[w].row, cur[w].col)
  /\ Len(cur[w].row) > 0
  /\ WorkerDies(w, "panicked")
  /\ UNCHANGED <<a, b, pc, res, nspawned, txAlive, data, i, j, k, wlog>>
  /\ UNCHANGED others
  /\ UNCHANGED <<made, sent, wrecv, wcomp, hread, opres>>

\* matrix.rs:46, 55  the channel is empty and every sender is gone
WorkerExit(w) ==
  /\ wst[w] = "idle"
  /\ queue[w] = <<>>
  /\ ~txAlive
  /\ wst' = [wst EXCEPT ![w] = "exited"]
  /\ UNCHANGED <<a, b, pc, res, nspawned, txAlive, queue, cur, data, receivers,
                 i, j, k, wlog>>
  /\ UNCHANGED others
  /\ UNCHANGED <<ghost, opres>>

\* matrix.rs:144-146  multiply(&self, &rhs).expect("Matrix multiply error"):
\* the operator hands on the matrix of an Ok, and panics on an Err or
\* when multiply itself unwinds
MulExpect ==
  /\ pc = "done"
  /\ opres = NoRes
  /\ opres' = IF res.kind = "Ok"
                THEN [kind |-> "Value", matrix |-> res.matrix]
                ELSE [kind |-> "Panic"]
  /\ UNCHANGED <<a, b, pc, res, nspawned, txAlive, queue, wst, cur, data,
                 receivers, i, j, k, wlog, ghost>>
  /\ UNCHANGED others

Dispatcher ==
  \/ NewA
  \/ NewB
  \/ CheckDims
  \/ Spawn
  \/ Alloc
  \/ Build
  \/ BuildDone
  \/ Collect
  \/ Return

Worker(w) ==
  \/ WorkerRecv(w)
  \/ WorkerCompute(w)
  \/ WorkerPanic(w)
  \/ WorkerExit(w)

Next ==
  \/ Dispatcher
  \/ \E w \in Workers : Worker(w)
  \/ MulExpect

Spec == Init /\ [][Next]_vars

\* the threads are scheduled by the operating system: each one that can
\* take a step eventually takes one
FairSpec ==
  /\ Spec
  /\ WF_vars(Dispatcher)
  /\ \A w \in Workers : WF_vars(Worker(w))


\* ---- Display for Matrix (matrix.rs:104-123) -----------------------------

\* bounds: the calls of fmt on one matrix, the vectors handed to dot_product
MaxCalls == 2
MaxVecLen == 2
MaxElem == 2

\* the data the test of matrix.rs:154 expects
TestProduct == <<7, 10, 15, 22>>

Digit(d) == <<"0", "1", "2", "3", "4", "5", "6", "7", "8", "9">>[d + 1]

\* Display of a non-negative integer element: its decimal digits
RECURSIVE ToStr(_)
ToStr(n) == IF n < 10 THEN <<Digit(n)>> ELSE ToStr(n \div 10) \o <<Digit(n % 10)>>

\* matrix.rs:112-114
CellSep(m, cj) == IF cj # m.col - 1 THEN <<" ">> ELSE <<>>

\* mutant of RowSep: the separator is written after the last row too
MutRowSep(m, ri) == <<",", " ">>

\* matrix.rs:116-118
RowSep(m, ri) == IF ri # m.row - 1 THEN <<",", " ">> ELSE <<>>

\* a write after a panic does not happen
Then(x, y) == IF x.ok /\ y.ok THEN [ok |-> TRUE, s |-> x.s \o y.s] ELSE [ok |-> FALSE]

\* matrix.rs:111  self.data[i * self.col + j] panics beyond the buffer
FmtCell(m, ri, cj) ==
  IF ri * m.col + cj >= Len(m.data) THEN [ok |-> FALSE]
  ELSE [ok |-> TRUE, s |-> ToStr(m.data[ri * m.col + cj + 1]) \o CellSep(m, cj)]

\* matrix.rs:110-115, the inner loop from column cj on
RECURSIVE FmtRow(_, _, _)
FmtRow(m, ri, cj) ==
  IF cj >= m.col THEN [ok |-> TRUE, s |-> <<>>]
  ELSE LET c == FmtCell(m, ri, cj)
       IN  IF c.ok THEN Then(c, FmtRow(m, ri, cj + 1)) ELSE c

\* matrix.rs:109-119, the outer loop from row ri on
RECURSIVE FmtRows(_, _)
FmtRows(m, ri) ==
  IF ri >= m.row THEN [ok |-> TRUE, s |-> <<>>]
  ELSE LET r == Then(FmtRow(m, ri, 0), [ok |-> TRUE, s |-> RowSep(m, ri)])
       IN  IF r.ok THEN Then(r, FmtRows(m, ri + 1)) ELSE r

\* matrix.rs:107-122
Display(m) ==
  Then(Then([ok |-> TRUE, s |-> <<"{">>], FmtRows(m, 0)), [ok |-> TRUE, s |-> <<"}">>])

FmtBuffers(row, col) == Buffers(row, col) \cup {TestProduct}

\* matrix.rs:95-101  the matrix to render is constructed
FmtNew ==
  /\ fm = NoMatrix
  /\ \E row \in 0 .. MaxRow, col \in 0 .. MaxCol :
       \E buf \in FmtBuffers(row, col) : fm' = Matrix_new(buf, row, col)
  /\ UNCHANGED <<fout, fprev, fcalls>>
  /\ UNCHANGED <<mvars, dvars, avars>>

\* matrix.rs:107  format!("{}", m) takes &self
FmtCall ==
  /\ fm # NoMatrix
  /\ fcalls < MaxCalls
  /\ fprev' = fout
  /\ fout' = Display(fm)
  /\ fcalls' = fcalls + 1
  /\ fm' = fm
  /\ UNCHANGED <<mvars, dvars, avars>>

FmtNext ==
  \/ FmtNew
  \/ FmtCall

SpecFmt == Init /\ [][FmtNext]_vars

\* ---- dot_product called on its own (vector.rs:11-25) --------------------

RECURSIVE SeqsUpTo(_, _)
SeqsUpTo(S, n) ==
  IF n = 0 THEN {<<>>}
  ELSE LET shorter == SeqsUpTo(S, n - 1)
       IN  shorter \cup {Append(q, x) : q \in {t \in shorter : Len(t) = n - 1}, x \in S}

Vectors == SeqsUpTo(0 .. MaxElem, MaxVecLen)

DotInit ==
  /\ MulInit
  /\ FmtIdle
  /\ AmapIdle
  /\ da \in Vectors
  /\ db \in Vectors
  /\ dres = NoRes

DotCall ==
  /\ dres = NoRes
  /\ dres' = dot_product(da, db)
  /\ UNCHANGED <<da, db>>
  /\ UNCHANGED <<mvars, fvars, avars>>

DotNext == DotCall

SpecDot == DotInit /\ [][DotNext]_vars

\* ---- AmapMetrics (metrics/amap.rs) --------------------------------------

\* bounds: the clones made of one AmapMetrics, the calls of inc
MaxClones == 2
MaxIncs == 3

\* amap.rs:19-22  every name starts at AtomicI64::new(0)
NewMap(names) == [n \in names |-> 0]

\* mutant of FetchAdd: the counter is stored, not added to
MutFetchAdd(c) == 1

\* amap.rs:34  counter.fetch_add(1, Ordering::Relaxed), one atomic step
FetchAdd(c) == c + 1

\* amap.rs:18-26
AmapNew ==
  /\ am_handles = <<>>
  /\ \E names \in SUBSET KeyNames :
       /\ am_names' = names
       /\ am_heap' = <<NewMap(names)>>
  /\ am_handles' = <<1>>
  /\ UNCHANGED <<am_calls, am_last>>
  /\ UNCHANGED <<mvars, fvars, dvars>>

\* amap.rs:39-45  Arc::clone: the new value points to the same map
AmapClone ==
  /\ am_handles # <<>>
  /\ Len(am_handles) <= MaxClones
  /\ \E h \in DOMAIN am_handles : am_handles' = Append(am_handles, am_handles[h])
  /\ UNCHANGED <<am_names, am_heap, am_calls, am_last>>
  /\ UNCHANGED <<mvars, fvars, dvars>>

IncsMade == am_calls["req"] + am_calls["hit"] + am_calls["miss"]

\* amap.rs:28-36  one call of inc by some thread through some handle; the
\* lookup reads a map nobody changes, the increment is one atomic step
AmapInc ==
  /\ am_handles # <<>>
  /\ IncsMade < MaxIncs
  /\ \E h \in DOMAIN am_handles, key \in KeyNames :
       LET arc == am_handles[h]
       IN  /\ am_calls' = [am_calls EXCEPT ![key] = @ + 1]
           /\ IF key \in DOMAIN am_heap[arc]
                THEN /\ am_heap' = [am_heap EXCEPT ![arc][key] = FetchAdd(@)]
                     /\ am_last' = [kind |-> "Ok", key |-> key]
                ELSE \* the ok_or_else of line 33
                     /\ am_heap' = am_heap
                     /\ am_last' = [kind |-> "Err", key |-> key]
  /\ UNCHANGED <<am_names, am_handles>>
  /\ UNCHANGED <<mvars, fvars, dvars>>

AmapNext ==
  \/ AmapNew
  \/ AmapClone
  \/ AmapInc

SpecAmap == Init /\ [][AmapNext]_vars

\* ---- properties of multiply ---------------------------------------------

Constructed == a # NoMatrix /\ b # NoMatrix

\* the buffer holds exactly rows*cols elements
ExactBuf(m) == Len(m.data) = m.row * m.col

ReturnedOk == pc = "done" /\ res.kind = "Ok"
ReturnedErr == pc = "done" /\ res.kind = "Err"

Dead(w) == wst[w] \in {"failed", "panicked"}

\* the sequential reference: sum over t < n of A[ci*k + t] * B[t*cols + cj]
RECURSIVE NaiveSum(_, _, _, _, _)
NaiveSum(ma, mb, ci, cj, n) ==
  IF n = 0 THEN 0
  ELSE NaiveSum(ma, mb, ci, cj, n - 1)
       + ma.data[ci * ma.col + (n - 1) + 1] * mb.data[(n - 1) * mb.col + cj + 1]

\* C1: when multiply returns Ok for operands with buffers of exactly
\* rows*cols elements, the element at offset i*n + j of the result is the
\* sum over t of A[i*k + t] * B[t*n + j], whatever the interleaving was.
C1_MatchesReference ==
  (ReturnedOk /\ ExactBuf(a) /\ ExactBuf(b)) =>
    \A ci \in 0 .. a.row - 1, cj \in 0 .. b.col - 1 :
      res.matrix.data[ci * b.col + cj + 1] = NaiveSum(a, b, ci, cj, a.col)

\* the product of the test of matrix.rs:151-154 has been returned
C1_Witness ==
  /\ ReturnedOk
  /\ a = Matrix_new(<<1, 2, 3, 4>>, 2, 2)
  /\ b = Matrix_new(<<1, 2, 3, 4>>, 2, 2)
  /\ res.matrix.data = <<7, 10, 15, 22>>

\* C2: with a.col # b.row multiply returns an error at once: no worker
\* thread has been spawned, no queue or completion handle exists, no task
\* has been built or sent.
C2_MismatchFailsFirst ==
  (Constructed /\ a.col # b.row) =>
    /\ pc \in {"check", "done"}
    /\ pc = "done" => res.kind = "Err"
    /\ nspawned = 0
    /\ ~txAlive
    /\ \A w \in Workers : wst[w] = "unspawned" /\ queue[w] = <<>> /\ cur[w] = NoMsg
    /\ receivers = <<>>
    /\ data = <<>>

C2_Witness ==
  /\ Constructed
  /\ a.col = 2
  /\ b.row = 1
  /\ ReturnedErr
  /\ nspawned = 0

\* C3: once a worker thread has died with a completion handle of one of
\* its tasks unresolved, multiply returns an error.
C3_DeathSurfacesAsErr ==
  (\E w \in Workers : Dead(w)) ~> ReturnedErr

\* what does hold of a worker's death: with operands whose buffers hold
\* exactly rows*cols elements the error is always returned, and from the
\* collection loop it is returned whatever the operands are
DeathSurfacesWithExactOperands ==
  (Constructed /\ ExactBuf(a) /\ ExactBuf(b) /\ \E w \in Workers : Dead(w))
    ~> ReturnedErr

CollectNeverHangs ==
  (pc = "collect" /\ \E w \in Workers : Dead(w)) ~> ReturnedErr

\* C4: multiply returns Ok only if every one of the rows_a*cols_b handles
\* delivered a value; when it returns and some handle has resolved with a
\* failure, it returns Err, which carries no matrix.
C4_NoPartialMatrix ==
  /\ ReturnedOk =>
       /\ Len(receivers) = a.row * b.col
       /\ k = Len(receivers)
       /\ \A h \in DOMAIN receivers : receivers[h].st = "value"
       /\ Len(wlog) = a.row * b.col
  /\ (pc = "done" /\ res.kind \in {"Ok", "Err"}
        /\ \E h \in DOMAIN receivers : receivers[h].st = "closed") =>
       res = [kind |-> "Err", err |-> "channel closed"]

\* a handle failed because its worker had died, multiply returned Err
C4_Witness ==
  /\ ReturnedErr
  /\ \E h \in DOMAIN receivers : receivers[h].st = "closed"
  /\ \E h \in DOMAIN receivers : receivers[h].st = "value"
  /\ \E w \in Workers : Dead(w)

\* the outcome of multiply as a function of its operands alone
RowsOk(ma, mb) ==
  \A ci \in 0 .. ma.row - 1, cj \in 0 .. mb.col - 1 :
    RowSlice(ma, ci).ok /\ ColGather(mb, cj).ok

Cell(ma, mb, p) ==
  dot_product(RowSlice(ma, p \div mb.col).v, ColGather(mb, p % mb.col).v)

Outcome(ma, mb) ==
  IF ma.col # mb.row
    THEN [kind |-> "Err", err |-> "Matrix dimentions mismatch"]
  ELSE IF ~RowsOk(ma, mb) THEN [kind |-> "Panic"]
  ELSE [kind |-> "Ok",
        matrix |-> [data |-> [p \in 1 .. ma.row * mb.col |-> Cell(ma, mb, p - 1).value],
                    row |-> ma.row, col |-> mb.col]]

\* C5: for fixed operands, every execution in which no worker fails ends
\* with the same outcome, the one the operands determine: the order in
\* which the workers finish does not show in the result.
C5_Deterministic ==
  (pc = "done" /\ \A w \in Workers : ~Dead(w)) => res = Outcome(a, b)

\* a result of six cells, computed by all four workers, was returned and
\* no worker failed
C5_Witness ==
  /\ ReturnedOk
  /\ Len(res.matrix.data) = 6
  /\ res.matrix.data[6] > 0
  /\ \A w \in Workers : wst[w] = "exited"

\* C6: when multiply returns Ok the result has row = m, col = n and a
\* buffer of m*n elements, and every slot was written exactly once, the
\* p-th write being that of the p-th handle awaited, whose result carries
\* idx = p.
C6_FullyWritten ==
  ReturnedOk =>
    /\ res.matrix.row = a.row
    /\ res.matrix.col = b.col
    /\ Len(res.matrix.data) = a.row * b.col
    /\ Len(wlog) = a.row * b.col
    /\ \A p \in DOMAIN wlog : wlog[p] = [h |-> p, idx |-> p - 1]
    /\ \A s \in 0 .. a.row * b.col - 1 :
         Cardinality({p \in DOMAIN wlog : wlog[p].idx = s}) = 1

C6_Witness ==
  /\ ReturnedOk
  /\ a.row = 2
  /\ b.col = 3
  /\ Len(wlog) = 6
  /\ res.matrix.data[1] # Default

\* C7: a call of multiply on matrices from Matrix::new never panics in
\* the calling thread: every failure is an Err.
C7_NeverPanics == res.kind # "Panic"

\* C8: every Matrix that exists has a buffer of rows*cols elements.
C8_BufferMatchesDims ==
  /\ a # NoMatrix => ExactBuf(a)
  /\ b # NoMatrix => ExactBuf(b)

\* ---- properties of the rendering ----------------------------------------

RECURSIVE Join(_, _)
Join(parts, sep) ==
  IF parts = <<>> THEN <<>>
  ELSE IF Len(parts) = 1 THEN parts[1]
  ELSE parts[1] \o sep \o Join(Tail(parts), sep)

\* the elements of row r (1-based), each as text
RowTexts(m, r) == [c \in 1 .. m.col |-> ToStr(m.data[(r - 1) * m.col + c])]

\* the textual contract: { rows joined by ", ", elements joined by " " }
Rendering(m) ==
  <<"{">> \o Join([r \in 1 .. m.row |-> Join(RowTexts(m, r), <<" ">>)], <<",", " ">>)
          \o <<"}">>

Renderable(m) == m # NoMatrix /\ m.row >= 1 /\ m.col >= 1 /\ ExactBuf(m)

\* C9: a matrix with rows >= 1, cols >= 1 and rows*cols elements renders
\* as '{', its rows separated by ', ', the elements of a row separated by
\* one space, '}'; a second rendering of the same matrix gives the same
\* string; [7,10,15,22] as 2x2 renders as {7 10, 15 22}.
C9_RenderingContract ==
  (Renderable(fm) /\ fcalls >= 1) =>
    /\ fout = [ok |-> TRUE, s |-> Rendering(fm)]
    /\ fcalls >= 2 => fprev = fout
    /\ fm = Matrix_new(TestProduct, 2, 2) =>
         fout.s = <<"{", "7", " ", "1", "0", ",", " ", "1", "5", " ", "2", "2", "}">>

C9_Witness ==
  /\ fm = Matrix_new(TestProduct, 2, 2)
  /\ fcalls = 2
  /\ fout.ok
  /\ Len(fout.s) = 13

\* ---- properties of dot_product ------------------------------------------

\* the sum of the products of the first n elements
RECURSIVE SumProd(_, _, _)
SumProd(va, vb, n) ==
  IF n = 0 THEN 0 ELSE SumProd(va, vb, n - 1) + va[n] * vb[n]

\* C10: dot_product returns an error, having computed no product, when the
\* lengths differ; with equal lengths it returns the sum of a[i]*b[i]
\* accumulated from the additive identity (two empty vectors give the
\* additive identity).
C10_DotProduct ==
  dres # NoRes =>
    /\ Len(da) # Len(db) => (~dres.ok /\ dres.mults = 0)
    /\ Len(da) = Len(db) => (dres.ok /\ dres.value = SumProd(da, db, Len(da)))
    /\ (da = <<>> /\ db = <<>>) => (dres.ok /\ dres.value = Default)

C10_Witness ==
  /\ da = <<1, 2>>
  /\ db = <<2, 1>>
  /\ dres # NoRes
  /\ dres.ok
  /\ dres.value = 4

\* ---- properties of the operator, the tasks and the handles --------------

\* C11: a * b gives the matrix multiply returns when that is Ok, and
\* panics exactly when multiply returns Err, which multiply itself reports
\* without panicking (stated for operands with buffers of rows*cols
\* elements).
C11_OperatorMirrorsMultiply ==
  (opres # NoRes /\ ExactBuf(a) /\ ExactBuf(b)) =>
    /\ res.kind = "Ok" => opres = [kind |-> "Value", matrix |-> res.matrix]
    /\ opres.kind = "Panic" <=> res.kind = "Err"

\* what does hold of the operator: it panics exactly when multiply did not
\* return Ok
OperatorPanicsUnlessOk ==
  opres # NoRes =>
    /\ res.kind = "Ok" => opres = [kind |-> "Value", matrix |-> res.matrix]
    /\ opres.kind = "Panic" <=> res.kind # "Ok"

Count(q, x) == Cardinality({p \in DOMAIN q : q[p] = x})

\* the places <<w, p>> of a per-worker history that hold idx
Places(hist, idx) ==
  {wp \in UNION {{<<w, p>> : p \in DOMAIN hist[w]} : w \in Workers} :
     hist[wp[1]][wp[2]] = idx}

Quiescent == pc = "done" /\ \A w \in Workers : ~RxAlive(w)

NoWorkerFailed == \A w \in Workers : ~Dead(w)

\* no task is received or computed twice, or by two workers; once every
\* thread has ended without a worker failure, each task built was received
\* and computed once
AtMostOnce ==
  /\ \A p \in DOMAIN made :
       /\ Cardinality(Places(wrecv, made[p])) <= 1
       /\ Cardinality(Places(wcomp, made[p])) <= 1
       /\ Count(made, made[p]) = 1
  /\ (Quiescent /\ NoWorkerFailed) =>
       \A p \in DOMAIN made :
         /\ Cardinality(Places(wrecv, made[p])) = 1
         /\ Cardinality(Places(wcomp, made[p])) = 1

\* C13: a call that passes the dimension check creates exactly one task
\* for every idx below rows_a*cols_b; no task is received or computed more
\* than once or by more than one worker; without a worker failure every
\* task is received and computed exactly once (the task count is stated
\* for operands with buffers of rows*cols elements).
C13_ExactlyOnce ==
  /\ (pc = "done" /\ a.col = b.row /\ ExactBuf(a) /\ ExactBuf(b)) =>
       made = [p \in 1 .. a.row * b.col |-> p - 1]
  /\ AtMostOnce

\* what does hold of the tasks: the tasks built are those of idx 0, 1, ...
\* in order, all rows_a*cols_b of them unless the calling thread panicked
TasksBuiltInOrder ==
  /\ \A p \in DOMAIN made : made[p] = p - 1
  /\ (pc \in {"collect", "done"} /\ a.col = b.row /\ res.kind # "Panic") =>
       Len(made) = a.row * b.col
  /\ AtMostOnce

\* C14: in a run where no worker fails, multiply on an m x k and a k x n
\* matrix ends by returning Ok.
C14_ReturnsOk ==
  (pc = "done" /\ a.col = b.row /\ ExactBuf(a) /\ ExactBuf(b) /\ NoWorkerFailed) =>
    res.kind = "Ok"

\* what does hold of termination: with a non-empty inner dimension, or at
\* most one column, the call on exact operands returns unless a worker died
TerminatesUnlessEmptyInner ==
  (pc = "check" /\ a.col = b.row /\ ExactBuf(a) /\ ExactBuf(b)
     /\ (a.col >= 1 \/ b.col <= 1))
    ~> (ReturnedOk \/ \E w \in Workers : Dead(w))

\* a oneshot channel is resolved at most once, a value coming from the one
\* worker that received its task
ResolvedAtMostOnce ==
  \A h \in DOMAIN receivers :
    /\ Len(hres[h]) <= 1
    /\ receivers[h].st = "value" =>
         /\ Len(hres[h]) = 1
         /\ hres[h][1].how = "value"
         /\ receivers[h].out.idx = made[h]
         /\ Count(wrecv[hres[h][1].by], made[h]) = 1
         /\ \A w \in Workers \ {hres[h][1].by} : Count(wrecv[w], made[h]) = 0

\* C15, the original statement: when multiply has returned, every
\* completion handle it created has been read exactly once (stated for
\* operands with buffers of rows*cols elements).
C15_ReadExactlyOnce ==
  (pc = "done" /\ res.kind \in {"Ok", "Err"} /\ ExactBuf(a) /\ ExactBuf(b)) =>
    \A h \in DOMAIN receivers : hread[h] = 1

\* C15, amended: every completion handle is resolved at most once, with a
\* value by the single worker that received its task or with a failure
\* when its sender is dropped, and is read at most once by the dispatcher:
\* exactly once when multiply returns Ok, while after a failed handle the
\* handles behind it are dropped unread.
C15_HandleOnce ==
  /\ ResolvedAtMostOnce
  /\ \A h \in DOMAIN receivers : hread[h] <= 1
  /\ \A h \in DOMAIN receivers : hread[h] = (IF h <= k \/ (h = k + 1 /\ ReturnedErr) THEN 1 ELSE 0)
  /\ ReturnedOk => \A h \in DOMAIN receivers : hread[h] = 1

\* multiply returned Err at the first handle of several: the others were
\* never read
C15_Witness ==
  /\ ReturnedErr
  /\ Len(receivers) >= 2
  /\ hread[1] = 1
  /\ hread[2] = 0
  /\ hres[1] = <<[how |-> "dropped"]>>

\* C16: a worker leaves its loop only when its queue is closed; after a
\* failed dot product it goes on, so the tasks queued behind the failing
\* one are still computed.
C16_WorkerSurvivesFailure ==
  /\ \A w \in Workers : wst[w] # "failed"
  /\ (Quiescent /\ \A w \in Workers : wst[w] # "panicked") =>
       \A w \in Workers : wcomp[w] = sent[w]

\* C18: once the dimension check has passed, every task carries a row and
\* a column of a.col elements, and no worker raises the length mismatch.
C18_VectorsSameLength ==
  \A w \in Workers :
    /\ \A p \in DOMAIN queue[w] :
         Len(queue[w][p].row) = a.col /\ Len(queue[w][p].col) = a.col
    /\ cur[w] # NoMsg => (Len(cur[w].row) = a.col /\ Len(cur[w].col) = a.col)
    /\ wst[w] # "failed"

\* what does hold of the vectors: with buffers of exactly rows*cols
\* elements the lengths agree
VectorsSameLengthWhenExact ==
  (Constructed /\ ExactBuf(a) /\ ExactBuf(b)) => C18_VectorsSameLength

IsPrefix(q, r) == Len(q) <= Len(r) /\ \A p \in DOMAIN q : q[p] = r[p]

\* C19: the task of index idx goes to the queue of worker idx mod 4 and to
\* no other, and only that worker computes it; a worker receives its tasks
\* in the order of submission, which is that of increasing idx; the
\* numbers of tasks assigned to two workers differ by at most one.
C19_Routing ==
  /\ \A w \in Workers :
       /\ \A p \in DOMAIN sent[w] : sent[w][p] % 4 = w
       /\ \A p \in DOMAIN queue[w] : queue[w][p].idx % 4 = w
       /\ \A p \in DOMAIN wcomp[w] : wcomp[w][p] % 4 = w
       /\ \A p, q \in DOMAIN sent[w] : p < q => sent[w][p] < sent[w][q]
       /\ IsPrefix(wrecv[w], sent[w])
       /\ IsPrefix(wcomp[w], wrecv[w])
  /\ \A p \in DOMAIN made : Cardinality(Places(sent, made[p])) <= 1
  /\ \A v, w \in Workers :
       Cardinality({p \in DOMAIN made : made[p] % 4 = v})
         - Cardinality({p \in DOMAIN made : made[p] % 4 = w}) <= 1

\* six tasks were routed: workers 0 and 1 received two each, in order
C19_Witness ==
  /\ sent[0] = <<0, 4>>
  /\ wrecv[0] = <<0, 4>>
  /\ wcomp[1] = <<1, 5>>
  /\ sent[3] = <<3>>

Terminated(w) == wst[w] \in {"exited", "failed", "panicked"}

\* C17: a call that passes the dimension check spawns exactly 4 worker
\* threads, and after it has returned, with Ok or with Err, every one of
\* them ends: none stays blocked on its queue.
C17_WorkersTornDown ==
  /\ [](nspawned <= 4)
  /\ []((pc \in {"build", "collect"} \/ (pc = "done" /\ a.col = b.row)) =>
          (nspawned = 4 /\ \A w \in Workers : wst[w] # "unspawned"))
  /\ ((pc = "done" /\ res.kind \in {"Ok", "Err"} /\ a.col = b.row)
        ~> (\A w \in Workers : Terminated(w)))

\* multiply returned Ok and its four workers have left their loops
C17_Witness ==
  /\ ReturnedOk
  /\ nspawned = 4
  /\ Len(made) = 6
  /\ \A w \in Workers : wst[w] = "exited"

Written == {wlog[p].idx : p \in DOMAIN wlog}

\* C20: only the calling thread changes the output buffer, and only in the
\* collection loop: a worker step leaves it as it is, no slot is written
\* before every task has been submitted, and slot idx holds the default
\* value until the handle of task idx has resolved with a value.
C20_BufferOwnedByDispatcher ==
  /\ [][(\E w \in Workers : Worker(w)) => (data' = data /\ wlog' = wlog)]_vars
  /\ [][(data' # data \/ wlog' # wlog) =>
          \/ pc = "spawn" /\ pc' = "build" /\ wlog' = wlog
          \/ /\ pc = "collect"
             /\ Len(made) = a.row * b.col
             /\ (i >= a.row \/ b.col = 0)
             /\ Len(wlog') = Len(wlog) + 1
             /\ LET s == wlog'[Len(wlog')].idx
                IN  /\ hres[s + 1] = <<[how |-> "value", by |-> s % 4]>>
                    /\ \A p \in DOMAIN data : p # s + 1 => data'[p] = data[p]]_vars
  /\ [](\A p \in DOMAIN data : (p - 1) \notin Written => data[p] = Default)

\* the first slot is written, the second still holds the default value
\* though its handle has resolved
C20_Witness ==
  /\ pc = "collect"
  /\ Len(data) >= 2
  /\ k = 1
  /\ data[1] # Default
  /\ data[2] = Default
  /\ receivers[2].st = "value"
  /\ receivers[2].out.value # Default

\* ---- properties of AmapMetrics -----------------------------------------

\* C12: after any interleaving of inc calls through a map and its clones,
\* the counter of each name the map was created with equals the number of
\* inc calls on that name, whichever handle is read; inc on another name
\* returns an error, changes no counter and adds no key.
C12_CountersExact ==
  /\ \A h \in DOMAIN am_handles :
       /\ DOMAIN am_heap[am_handles[h]] = am_names
       /\ \A n \in am_names : am_heap[am_handles[h]][n] = am_calls[n]
  /\ am_last # NoRes => (am_last.kind = "Err" <=> am_last.key \notin am_names)
  /\ Len(am_heap) <= 1

\* three increments of one name went through three handles
C12_Witness ==
  /\ Len(am_handles) = 3
  /\ am_names = {"req", "hit"}
  /\ am_calls["req"] = 2
  /\ am_calls["miss"] = 1
  /\ am_heap[am_handles[3]]["req"] = 2
  /\ am_last.kind = "Err"

=============================================================================
